---- MODULE Spec2Model ----
(***************************************************************************)
(* The associative table core of piccolo (src/src/table.rs): a TableEntries *)
(* value made of an array part (Vec<Value>) and a map part (a hashbrown     *)
(* RawTable of (key, value) pairs), with set / get / length / next.         *)
(*                                                                          *)
(* Values are records [t, v]: t is the variant tag of Value, v its payload  *)
(* as an integer.  A Number carries its value in halves (v = 2 * f), so     *)
(* Number 1 is 0.5 and Number 2 is 1.0; the tag "NaN" is Number(f64::NAN).  *)
(***************************************************************************)
EXTENDS Integers, Sequences, FiniteSets, TLC

\* ------------------------------------------------------------- bounds
\* Integer keys are drawn from 1..MaxKey.
MaxKey == 5
\* At most MaxCalls calls of set are made on a table.
MaxCalls == 4
\* The specification of the metatable makes at most MaxMetaCalls calls, on
\* Integer keys from 1..MaxMetaKey.
MaxMetaCalls == 3
MaxMetaKey == 2
\* The specification of the ascending fill sets the keys 1..MaxAscending.
MaxAscending == 9
\* The specification of the traversal fills the table by MaxFillCalls calls of
\* set with Integer keys from 1..MaxIterKey.
MaxFillCalls == 3
MaxIterKey == 4
\* The specification of the key forms draws Integer keys from 0..MaxFloatKey
\* and Number keys from 0.5, 1.0, ..., MaxFloatKey, and makes at most
\* MaxKeyCalls calls.
MaxFloatKey == 2
MaxKeyCalls == 3
\* Width of the signed integers of the model (i64 in the program).
IntBits == 8

\* ------------------------------------------------------------- values
Nil == [t |-> "Nil", v |-> 0]
Boolean(b) == [t |-> "Boolean", v |-> IF b THEN 1 ELSE 0]
Integer(i) == [t |-> "Integer", v |-> i]
Number(h) == [t |-> "Number", v |-> h]
NaN == [t |-> "NaN", v |-> 0]
String(s) == [t |-> "String", v |-> s]

is_nil(x) == x.t = "Nil"
is_nan(x) == x.t = "NaN"

I64Max == 2 ^ (IntBits - 1) - 1

\* Option<T>: None, or Some(x).
None == [some |-> FALSE, val |-> Nil]
Some(x) == [some |-> TRUE, val |-> x]
unwrap_or(o, d) == IF o.some THEN o.val ELSE d

\* Option<i64> and Option<usize>.
NoneI == [some |-> FALSE, val |-> 0]
SomeI(i) == [some |-> TRUE, val |-> i]

Max(a, b) == IF a >= b THEN a ELSE b

\* ------------------------------------------------------------- keys
\* f64_to_i64: the i64 closest to the float, when casting it back gives the
\* same float; a float given in halves is integral iff its count is even.
\* NaN casts to 0, and 0 as f64 is not NaN.
f64_to_i64(n) ==
    IF is_nan(n) THEN NoneI
    ELSE IF n.v % 2 = 0 THEN SomeI(n.v \div 2)
    ELSE NoneI

\* A bug: only Integer keys are given an array index.
to_array_index_integer_only(key) ==
    IF key.t = "Integer" /\ key.v > 0 THEN SomeI(key.v - 1) ELSE NoneI

to_array_index(key) ==
    LET i == IF key.t = "Integer" THEN SomeI(key.v)
             ELSE IF key.t \in {"Number", "NaN"} THEN f64_to_i64(key)
             ELSE NoneI
    IN  IF i.some /\ i.val > 0 THEN SomeI(i.val - 1) ELSE NoneI

\* A bug: NaN is not refused.
canonical_key_accepts_nan(value) ==
    IF is_nil(value) THEN [err |-> "IsNil", key |-> Nil]
    ELSE IF value.t = "Number" /\ f64_to_i64(value).some
    THEN [err |-> "Ok", key |-> Integer(f64_to_i64(value).val)]
    ELSE [err |-> "Ok", key |-> value]

canonical_key(value) ==
    IF is_nil(value) THEN [err |-> "IsNil", key |-> Nil]
    ELSE IF is_nan(value) THEN [err |-> "IsNaN", key |-> Nil]
    ELSE IF value.t = "Number" THEN
        IF f64_to_i64(value).some
        THEN [err |-> "Ok", key |-> Integer(f64_to_i64(value).val)]
        ELSE [err |-> "Ok", key |-> value]
    ELSE [err |-> "Ok", key |-> value]

key_eq(a, b) == a.t = b.t /\ a.t # "NaN" /\ a.v = b.v

\* Bitwise exclusive or of two naturals.
RECURSIVE Xor(_, _)
Xor(a, b) ==
    IF a = 0 THEN b
    ELSE IF b = 0 THEN a
    ELSE (((a % 2) + (b % 2)) % 2) + 2 * Xor(a \div 2, b \div 2)

\* The hash bits that select a bucket: hashbrown starts its probe at
\* hash & bucket_mask, so with at most HashRange buckets only hash % HashRange
\* matters.  FxHasher folds a word w into state s as
\* (rotate_left(s, 5) ^ w) * 0x517cc1b727220a95 (mod 2^64); after the variant
\* tag the rotated state ends in the nibble TagNibble, and the multiplier ends
\* in the nibble 5.
HashRange == 16
FxMulNibble == 5
TagNibble(tag) ==
    CASE tag = 1 -> 10
      [] tag = 2 -> 4
      [] tag = 3 -> 14
      [] OTHER -> 0

\* canonical_float_bytes: the IEEE-754 bits of the float; every multiple of
\* one half within the model's range has a mantissa ending in zero bits.
canonical_float_bytes(n) == 0

key_hash(value) ==
    CASE value.t = "Boolean" ->
            (Xor(value.v % HashRange, TagNibble(1)) * FxMulNibble) % HashRange
      [] value.t = "Integer" ->
            (Xor(value.v % HashRange, TagNibble(2)) * FxMulNibble) % HashRange
      [] value.t = "Number" ->
            (Xor(canonical_float_bytes(value) % HashRange, TagNibble(3))
                * FxMulNibble) % HashRange
      [] OTHER -> 0

\* highest_bit: the place of the highest set bit, 0 for 0.
RECURSIVE LOG_2(_)
LOG_2(i) == IF i = 0 THEN 0 ELSE 1 + LOG_2(i \div 2)

RECURSIVE highest_bit(_)
highest_bit(i) == IF i >= 256 THEN 8 + highest_bit(i \div 256) ELSE LOG_2(i)

\* ------------------------------------------------------------- map part
\* The RawTable as its sequence of buckets (bucket i of the program is
\* element i + 1).  A bucket is full with a (key, value) pair, or empty.  The
\* tables of the model have at most GroupWidth buckets, and there erasing a
\* bucket always leaves it EMPTY (a DELETED tombstone needs GroupWidth
\* consecutive non-empty control bytes around it), so the room left
\* (growth_left) is the capacity minus the number of items.
GroupWidth == 16

EmptyBucket == [full |-> FALSE, k |-> Nil, v |-> Nil]
FullBucket(key, value) == [full |-> TRUE, k |-> key, v |-> value]

\* RawTable::new: the shared empty singleton, one empty bucket, capacity 0.
RawTableNew == <<EmptyBucket>>

buckets(m) == Len(m)
is_bucket_full(m, i) == m[i + 1].full
map_len(m) == Cardinality({i \in 1..Len(m) : m[i].full})
map_is_empty(m) == map_len(m) = 0

\* bucket_mask_to_capacity
bucket_mask_to_capacity(bucket_mask) ==
    IF bucket_mask < 8 THEN bucket_mask ELSE ((bucket_mask + 1) \div 8) * 7

map_capacity(m) == bucket_mask_to_capacity(buckets(m) - 1)
growth_left(m) == map_capacity(m) - map_len(m)

RECURSIVE next_power_of_two(_)
next_power_of_two(n) == IF n <= 1 THEN 1 ELSE 2 * next_power_of_two((n + 1) \div 2)

\* capacity_to_buckets
capacity_to_buckets(cap) ==
    IF cap < 8 THEN (IF cap < 4 THEN 4 ELSE 8)
    ELSE next_power_of_two((cap * 8) \div 7)

\* RawTable::find: the bucket holding a key equal to `key` (its program index),
\* or None.  Within one group the probe sees every bucket.
map_find(m, hash, key) ==
    LET hits == {i \in 0..(buckets(m) - 1) : m[i + 1].full /\ key_eq(key, m[i + 1].k)}
    IN  IF hits = {} THEN NoneI ELSE SomeI(CHOOSE i \in hits : \A j \in hits : i <= j)

\* find_insert_slot: the first bucket that is not full, probing from
\* hash & bucket_mask upwards and wrapping to bucket 0.
RECURSIVE probe_from(_, _, _)
probe_from(m, pos, n) ==
    IF n = 0 THEN pos
    ELSE IF ~m[pos + 1].full THEN pos
    ELSE probe_from(m, (pos + 1) % buckets(m), n - 1)

find_insert_slot(m, hash) == probe_from(m, hash % buckets(m), buckets(m))

\* resize: a new table of capacity_to_buckets(capacity) buckets, the items
\* moved over in bucket order, each to the slot its hash finds.
RECURSIVE move_items(_, _, _)
move_items(old, i, new) ==
    IF i >= buckets(old) THEN new
    ELSE IF old[i + 1].full
    THEN move_items(old, i + 1,
            [new EXCEPT ![find_insert_slot(new, key_hash(old[i + 1].k)) + 1] = old[i + 1]])
    ELSE move_items(old, i + 1, new)

map_resize(m, capacity) ==
    move_items(m, 0, [i \in 1..capacity_to_buckets(capacity) |-> EmptyBucket])

\* RawTable::reserve: nothing while `additional` fits in the room left;
\* otherwise reserve_rehash, which resizes to hold the larger of
\* items + additional and the full capacity + 1.
map_reserve(m, additional) ==
    IF additional > growth_left(m)
    THEN map_resize(m, Max(map_len(m) + additional, map_capacity(m) + 1))
    ELSE m

\* RawTable::insert: reserves room for one when none is left, then fills the
\* slot the hash finds.
map_fill(m, hash, key, value) ==
    [m EXCEPT ![find_insert_slot(m, hash) + 1] = FullBucket(key, value)]

map_insert(m, hash, key, value) ==
    map_fill(IF growth_left(m) = 0 THEN map_reserve(m, 1) ELSE m, hash, key, value)

\* RawTable::erase / RawTable::remove of bucket i.
map_erase(m, i) == [m EXCEPT ![i + 1] = EmptyBucket]

\* table_iter: the (key, value) pairs of the full buckets, in bucket order.
table_iter(m) == {i \in 0..(buckets(m) - 1) : m[i + 1].full}

\* A bug: an existing entry keeps its old value.
table_insert_at_keeps_old(m, hash, key, value, b) ==
    IF b.some
    THEN [map |-> m, old |-> Some(m[b.val + 1].v)]
    ELSE [map |-> map_insert(m, hash, key, value), old |-> None]

table_insert_at(m, hash, key, value, b) ==
    IF b.some
    THEN [map |-> [m EXCEPT ![b.val + 1].v = value], old |-> Some(m[b.val + 1].v)]
    ELSE [map |-> map_insert(m, hash, key, value), old |-> None]

table_insert(m, hash, key, value) ==
    table_insert_at(m, hash, key, value, map_find(m, hash, key))

table_remove_at(m, b) ==
    IF b.some
    THEN [map |-> map_erase(m, b.val), old |-> Some(m[b.val + 1].v)]
    ELSE [map |-> m, old |-> None]

table_remove(m, hash, key) == table_remove_at(m, map_find(m, hash, key))

\* ------------------------------------------------------------- array part
\* Vec::reserve on a vector whose length equals its capacity: the capacity
\* grows to the larger of twice itself and the room asked for, and to no less
\* than the smallest non-zero capacity of a vector of Values.
VecMinNonZeroCap == 4
vec_reserve(cap, additional) ==
    IF additional <= 0 THEN cap
    ELSE Max(Max(2 * cap, cap + additional), VecMinNonZeroCap)

\* ------------------------------------------------------------- get
get_found(m, b) == IF b.some THEN m[b.val + 1].v ELSE Nil

get_keyed(m, ck) ==
    IF ck.err = "Ok" THEN get_found(m, map_find(m, key_hash(ck.key), ck.key)) ELSE Nil

get_indexed(arr, m, key, index) ==
    IF index.some /\ index.val < Len(arr) THEN arr[index.val + 1]
    ELSE get_keyed(m, canonical_key(key))

get(arr, m, key) == get_indexed(arr, m, key, to_array_index(key))

\* ------------------------------------------------------------- set
USIZE_BITS == 64

\* array_counts[b] and array_total: the array candidates (non-Nil array slots,
\* map keys with an array index, and the incoming key) by highest bit.
array_counts(arr, m, index_key) ==
    [b \in 0..(USIZE_BITS - 1) |->
        Cardinality({i \in 0..(Len(arr) - 1) :
            ~is_nil(arr[i + 1]) /\ highest_bit(i) = b})
        + Cardinality({j \in table_iter(m) :
            to_array_index(m[j + 1].k).some
            /\ highest_bit(to_array_index(m[j + 1].k).val) = b})
        + (IF index_key.some /\ highest_bit(index_key.val) = b THEN 1 ELSE 0)]

array_total(arr, m, index_key) ==
    Cardinality({i \in 0..(Len(arr) - 1) : ~is_nil(arr[i + 1])})
    + Cardinality({j \in table_iter(m) : to_array_index(m[j + 1].k).some})
    + (IF index_key.some THEN 1 ELSE 0)

\* A bug: a size counts as dense only when the candidates exceed it, not half
\* of it.
RECURSIVE optimal_loop_needs_full(_, _, _, _, _)
optimal_loop_needs_full(i, counts, atotal, total, optimal_size) ==
    IF i >= USIZE_BITS THEN optimal_size
    ELSE IF (2 ^ i) \div 2 >= atotal THEN optimal_size
    ELSE IF counts[i] > 0
    THEN LET t == total + counts[i]
         IN  optimal_loop_needs_full(i + 1, counts, atotal, t,
                IF t > 2 ^ i THEN 2 ^ i ELSE optimal_size)
    ELSE optimal_loop_needs_full(i + 1, counts, atotal, total, optimal_size)

\* The loop over i in 0..USIZE_BITS that finds the optimal size.
RECURSIVE optimal_loop(_, _, _, _, _)
optimal_loop(i, counts, atotal, total, optimal_size) ==
    IF i >= USIZE_BITS THEN optimal_size
    ELSE IF (2 ^ i) \div 2 >= atotal THEN optimal_size
    ELSE IF counts[i] > 0
    THEN LET t == total + counts[i]
         IN  optimal_loop(i + 1, counts, atotal, t,
                IF t > (2 ^ i) \div 2 THEN 2 ^ i ELSE optimal_size)
    ELSE optimal_loop(i + 1, counts, atotal, total, optimal_size)

optimal_size(arr, m, index_key) ==
    optimal_loop(0, array_counts(arr, m, index_key),
                 array_total(arr, m, index_key), 0, 0)

\* The array grown to its reserved capacity, new slots Nil.
array_grow(arr, optimal) ==
    LET capacity == vec_reserve(Len(arr), optimal - Len(arr))
    IN  [i \in 1..capacity |-> IF i <= Len(arr) THEN arr[i] ELSE Nil]

\* table_retain with the closure of set: every map entry whose array index is
\* inside the array is written to its slot and erased from the map.
Swept(arr, m) ==
    {j \in table_iter(m) :
        to_array_index(m[j + 1].k).some /\ to_array_index(m[j + 1].k).val < Len(arr)}

\* A bug: the swept entries are erased from the map but not written to the
\* array.
table_retain_drops(arr, m) ==
    [array |-> arr,
     map |-> [j \in 1..Len(m) |-> IF (j - 1) \in Swept(arr, m) THEN EmptyBucket ELSE m[j]]]

\* A bug: the swept entries are written to the array but stay in the map.
table_retain_keeps(arr, m) ==
    [array |-> [i \in 1..Len(arr) |->
                    IF \E j \in Swept(arr, m) : to_array_index(m[j + 1].k).val = i - 1
                    THEN m[(CHOOSE j \in Swept(arr, m) :
                                to_array_index(m[j + 1].k).val = i - 1) + 1].v
                    ELSE arr[i]],
     map |-> m]

table_retain(arr, m) ==
    [array |-> [i \in 1..Len(arr) |->
                    IF \E j \in Swept(arr, m) : to_array_index(m[j + 1].k).val = i - 1
                    THEN m[(CHOOSE j \in Swept(arr, m) :
                                to_array_index(m[j + 1].k).val = i - 1) + 1].v
                    ELSE arr[i]],
     map |-> [j \in 1..Len(m) |-> IF (j - 1) \in Swept(arr, m) THEN EmptyBucket ELSE m[j]]]

SetResult(arr, m, r, e, p) == [array |-> arr, map |-> m, ret |-> r, err |-> e, path |-> p]

\* The result of a set that ends in table_insert or table_remove.
SetInserted(arr, res, p) == SetResult(arr, res.map, unwrap_or(res.old, Nil), "Ok", p)

\* A bug: the value the rebalance moved into the array is not returned.
set_store_returns_nil(grown, value, index_key, table_key, hash, p) ==
    IF index_key.some /\ index_key.val < Len(grown.array)
    THEN SetResult([grown.array EXCEPT ![index_key.val + 1] = value], grown.map,
                   Nil, "Ok", p)
    ELSE SetInserted(grown.array, table_insert(grown.map, hash, table_key, value), p)

\* The end of the grow branch (lines 249-255): the pair is stored in the array
\* when its index is now inside it, and in the map otherwise.
set_store(grown, value, index_key, table_key, hash, p) ==
    IF index_key.some /\ index_key.val < Len(grown.array)
    THEN SetResult([grown.array EXCEPT ![index_key.val + 1] = value], grown.map,
                   grown.array[index_key.val + 1], "Ok", p)
    ELSE SetInserted(grown.array, table_insert(grown.map, hash, table_key, value), p)

\* A bug: when the array does not grow the pair is not stored.
set_rebalance_no_store(arr, m, optimal, value, index_key, table_key, hash) ==
    IF optimal > Len(arr)
    THEN set_store(table_retain(array_grow(arr, optimal), m),
                   value, index_key, table_key, hash, "grow_array")
    ELSE SetResult(arr, map_reserve(m, map_len(m)), Nil, "Ok", "grow_map")

\* The grow branch of set (lines 174-247): the map is full for a new value.
set_rebalance(arr, m, optimal, value, index_key, table_key, hash) ==
    IF optimal > Len(arr)
    THEN set_store(table_retain(array_grow(arr, optimal), m),
                   value, index_key, table_key, hash, "grow_array")
    ELSE set_store([array |-> arr, map |-> map_reserve(m, map_len(m))],
                   value, index_key, table_key, hash, "grow_map")

\* A bug: the capacity of the map is tested before the value is tested for Nil.
set_keyed_capacity_first(arr, m, value, index_key, table_key, hash) ==
    IF map_len(m) < map_capacity(m)
    THEN IF is_nil(value)
         THEN SetInserted(arr, table_remove(m, hash, table_key), "remove")
         ELSE SetInserted(arr, table_insert(m, hash, table_key, value), "insert")
    ELSE set_rebalance(arr, m, optimal_size(arr, m, index_key),
                       value, index_key, table_key, hash)

\* A bug: a Nil value is inserted like any other value.
set_keyed_inserts_nil(arr, m, value, index_key, table_key, hash) ==
    IF map_len(m) < map_capacity(m)
    THEN SetInserted(arr, table_insert(m, hash, table_key, value), "insert")
    ELSE set_rebalance(arr, m, optimal_size(arr, m, index_key),
                       value, index_key, table_key, hash)

set_keyed(arr, m, value, index_key, table_key, hash) ==
    IF is_nil(value)
    THEN SetInserted(arr, table_remove(m, hash, table_key), "remove")
    ELSE IF map_len(m) < map_capacity(m)
    THEN SetInserted(arr, table_insert(m, hash, table_key, value), "insert")
    ELSE set_rebalance(arr, m, optimal_size(arr, m, index_key),
                       value, index_key, table_key, hash)

\* A bug: a Nil written into the last slot shortens the array.
set_indexed_shrinks_on_nil(arr, m, key, value, index_key, ck) ==
    IF index_key.some /\ index_key.val < Len(arr)
    THEN SetResult(IF is_nil(value) /\ index_key.val + 1 = Len(arr)
                   THEN SubSeq(arr, 1, Len(arr) - 1)
                   ELSE [arr EXCEPT ![index_key.val + 1] = value],
                   m, arr[index_key.val + 1], "Ok", "array")
    ELSE IF ck.err # "Ok"
    THEN SetResult(arr, m, Nil, ck.err, "error")
    ELSE set_keyed(arr, m, value, index_key, ck.key, key_hash(ck.key))

\* A bug: the key is stored as given, not in its canonical form.
set_indexed_stores_raw_key(arr, m, key, value, index_key, ck) ==
    IF index_key.some /\ index_key.val < Len(arr)
    THEN SetResult([arr EXCEPT ![index_key.val + 1] = value], m,
                   arr[index_key.val + 1], "Ok", "array")
    ELSE IF ck.err # "Ok"
    THEN SetResult(arr, m, Nil, ck.err, "error")
    ELSE set_keyed(arr, m, value, index_key, key, key_hash(key))

set_indexed(arr, m, key, value, index_key, ck) ==
    IF index_key.some /\ index_key.val < Len(arr)
    THEN SetResult([arr EXCEPT ![index_key.val + 1] = value], m,
                   arr[index_key.val + 1], "Ok", "array")
    ELSE IF ck.err # "Ok"
    THEN SetResult(arr, m, Nil, ck.err, "error")
    ELSE set_keyed(arr, m, value, index_key, ck.key, key_hash(ck.key))

set(arr, m, key, value) ==
    set_indexed(arr, m, key, value, to_array_index(key), canonical_key(key))

\* ------------------------------------------------------------- length
\* A bug: the search ends on max, not on min.
RECURSIVE binary_search_returns_max(_, _, _)
binary_search_returns_max(min, max, nil_at) ==
    IF max - min > 1
    THEN LET mid == min + (max - min) \div 2
         IN  IF nil_at[mid] THEN binary_search_returns_max(min, mid, nil_at)
             ELSE binary_search_returns_max(mid, max, nil_at)
    ELSE max

\* binary_search(min, max, is_nil): is_nil is given as a function of the index.
RECURSIVE binary_search(_, _, _)
binary_search(min, max, nil_at) ==
    IF max - min > 1
    THEN LET mid == min + (max - min) \div 2
         IN  IF nil_at[mid] THEN binary_search(min, mid, nil_at)
             ELSE binary_search(mid, max, nil_at)
    ELSE min

\* The indices binary_search evaluates is_nil at.
RECURSIVE binary_search_probes(_, _, _)
binary_search_probes(min, max, nil_at) ==
    IF max - min > 1
    THEN LET mid == min + (max - min) \div 2
         IN  {mid} \cup (IF nil_at[mid] THEN binary_search_probes(min, mid, nil_at)
                         ELSE binary_search_probes(mid, max, nil_at))
    ELSE {}

map_has_integer(m, i) == map_find(m, key_hash(Integer(i)), Integer(i)).some

\* A bug: max is doubled with a multiplication that wraps around.
RECURSIVE length_probe_wrapping(_, _)
length_probe_wrapping(m, max) ==
    IF map_has_integer(m, max)
    THEN IF max = I64Max THEN [done |-> TRUE, max |-> I64Max]
         ELSE length_probe_wrapping(m,
                ((max * 2 + 2 ^ (IntBits - 1)) % 2 ^ IntBits) - 2 ^ (IntBits - 1))
    ELSE [done |-> FALSE, max |-> max]

\* A bug: max is not doubled while it is a key of the map.
length_probe_no_doubling(m, max) == [done |-> FALSE, max |-> max]

\* The doubling loop of length: the first max, from `max` on, that is not a
\* key of the map; done is set when i64::MAX itself is a key.
RECURSIVE length_probe(_, _)
length_probe(m, max) ==
    IF map_has_integer(m, max)
    THEN IF max = I64Max THEN [done |-> TRUE, max |-> I64Max]
         ELSE IF max * 2 <= I64Max THEN length_probe(m, max * 2)
         ELSE length_probe(m, I64Max)
    ELSE [done |-> FALSE, max |-> max]

length(arr, m) ==
    LET array_len == Len(arr)
    IN  IF Len(arr) # 0 /\ is_nil(arr[array_len])
        THEN binary_search(0, array_len, [i \in 1..array_len |-> is_nil(arr[i])])
        ELSE IF map_is_empty(m) THEN array_len
        ELSE LET min == array_len
                 probe == length_probe(m, array_len + 1)
             IN  IF probe.done THEN I64Max
                 ELSE binary_search(min, probe.max,
                        [i \in (min + 1)..probe.max |-> ~map_has_integer(m, i)])

\* ------------------------------------------------------------- next
Found(key, value) == [kind |-> "Found", key |-> key, value |-> value]
Last == [kind |-> "Last", key |-> Nil, value |-> Nil]
NotFound == [kind |-> "NotFound", key |-> Nil, value |-> Nil]

\* A bug: the scan returns the last non-Nil slot, not the first.
array_scan_takes_last(arr, start) ==
    LET hits == {i \in start..(Len(arr) - 1) : ~is_nil(arr[i + 1])}
    IN  IF hits = {} THEN NoneI ELSE SomeI(CHOOSE i \in hits : \A j \in hits : i >= j)

\* The first non-Nil array slot at an index >= start, or None.
array_scan(arr, start) ==
    LET hits == {i \in start..(Len(arr) - 1) : ~is_nil(arr[i + 1])}
    IN  IF hits = {} THEN NoneI ELSE SomeI(CHOOSE i \in hits : \A j \in hits : i <= j)

\* A bug: the scan starts one bucket late.
bucket_scan_skips_one(m, start) ==
    LET hits == {i \in (start + 1)..(buckets(m) - 1) : is_bucket_full(m, i)}
    IN  IF hits = {} THEN NoneI ELSE SomeI(CHOOSE i \in hits : \A j \in hits : i <= j)

\* The first full bucket at an index >= start, or None.
bucket_scan(m, start) ==
    LET hits == {i \in start..(buckets(m) - 1) : is_bucket_full(m, i)}
    IN  IF hits = {} THEN NoneI ELSE SomeI(CHOOSE i \in hits : \A j \in hits : i <= j)

next_in_map(m, start) ==
    LET b == bucket_scan(m, start)
    IN  IF b.some THEN Found(m[b.val + 1].k, m[b.val + 1].v) ELSE Last

\* A bug: a key that has no canonical form is taken for the start of the map
\* part.
next_invalid_key_from_start(arr, m, key) ==
    LET index_key == to_array_index(key)
        array_result ==
            IF index_key.some
            THEN IF index_key.val < Len(arr)
                 THEN [some |-> TRUE, start |-> index_key.val + 1,
                       is_missing |-> is_nil(arr[index_key.val + 1])]
                 ELSE [some |-> FALSE, start |-> 0, is_missing |-> FALSE]
            ELSE IF is_nil(key)
            THEN [some |-> TRUE, start |-> 0, is_missing |-> FALSE]
            ELSE [some |-> FALSE, start |-> 0, is_missing |-> FALSE]
    IN  IF array_result.some
        THEN LET a == array_scan(arr, array_result.start)
             IN  IF a.some THEN Found(Integer(a.val + 1), arr[a.val + 1])
                 ELSE IF array_result.is_missing THEN NotFound
                 ELSE next_in_map(m, 0)
        ELSE IF canonical_key(key).err = "Ok"
        THEN LET table_key == canonical_key(key).key
                 b == map_find(m, key_hash(table_key), table_key)
             IN  IF b.some THEN next_in_map(m, b.val + 1) ELSE NotFound
        ELSE next_in_map(m, 0)

\* TableEntries::next
next(arr, m, key) ==
    LET index_key == to_array_index(key)
        array_result ==
            IF index_key.some
            THEN IF index_key.val < Len(arr)
                 THEN [some |-> TRUE, start |-> index_key.val + 1,
                       is_missing |-> is_nil(arr[index_key.val + 1])]
                 ELSE [some |-> FALSE, start |-> 0, is_missing |-> FALSE]
            ELSE IF is_nil(key)
            THEN [some |-> TRUE, start |-> 0, is_missing |-> FALSE]
            ELSE [some |-> FALSE, start |-> 0, is_missing |-> FALSE]
    IN  IF array_result.some
        THEN LET a == array_scan(arr, array_result.start)
             IN  IF a.some THEN Found(Integer(a.val + 1), arr[a.val + 1])
                 ELSE IF array_result.is_missing THEN NotFound
                 ELSE next_in_map(m, 0)
        ELSE IF canonical_key(key).err = "Ok"
        THEN LET table_key == canonical_key(key).key
                 b == map_find(m, key_hash(table_key), table_key)
             IN  IF b.some THEN next_in_map(m, b.val + 1) ELSE NotFound
        ELSE NotFound

\* The traversal a caller makes: next(Nil), then next of each key returned,
\* until a result that is not Found, or until `fuel` calls have been made.
RECURSIVE traverse_from(_, _, _, _, _)
traverse_from(arr, m, key, fuel, acc) ==
    LET r == next(arr, m, key)
    IN  IF r.kind # "Found" THEN [keys |-> acc, end |-> r.kind]
        ELSE IF fuel = 0 THEN [keys |-> Append(acc, r.key), end |-> "Running"]
        ELSE traverse_from(arr, m, r.key, fuel - 1, Append(acc, r.key))

traverse(arr, m) == traverse_from(arr, m, Nil, Len(arr) + buckets(m) + 1, <<>>)

\* ------------------------------------------------------------- metatable
\* A Table handle: its identity is the cell it points to.
Table(id) == [t |-> "Table", v |-> id]

\* Table::metatable
metatable_of(mt) == mt

\* A bug: the new reference is returned, not the prior one.
set_metatable_returns_new(mt, m) == [metatable |-> m, ret |-> m]

\* Table::set_metatable: mem::replace of the metatable field.
set_metatable(mt, m) == [metatable |-> m, ret |-> mt]

\* ------------------------------------------------------------- the table
VARIABLES
    array,  \* TableEntries.array
    map,    \* TableEntries.map
    ref,    \* the reference: one key -> value map, written by the same calls
    last,   \* the last call made and what it returned
    calls,  \* the number of calls made so far
    metatable,  \* TableState.metatable
    built,  \* the calls so far were set(1, v), set(2, v), ... with no v Nil
    iter    \* a caller's traversal: the key it holds, the keys returned so far

vars == <<array, map, ref, last, calls, metatable, built, iter>>

\* The keys and values the calls are made with: integers from 1 on and the
\* float 0.5.
IntegerKeys == {Integer(i) : i \in 1..MaxKey}
Keys == IntegerKeys \cup {Number(1)}
NonNilValues == {String(1), String(2)}
Values == {Nil} \cup NonNilValues

\* The keys of the specification of the key forms: each integer in both its
\* forms, floats that are no integers, and the two invalid keys.
FloatKeys == {Number(h) : h \in 1..(2 * MaxFloatKey)}
InvalidKeys == {Nil, NaN}
FormKeys == {Integer(i) : i \in 0..MaxFloatKey} \cup FloatKeys \cup InvalidKeys

\* The key of the reference map: the number a numeric key denotes (in
\* halves), so that 1 and 1.0 are one key; any other key is itself.
RefKey(key) ==
    IF key.t = "Integer" THEN [t |-> "num", v |-> 2 * key.v]
    ELSE IF key.t = "Number" THEN [t |-> "num", v |-> key.v]
    ELSE key

\* The keys the table is read with: the keys written, and keys never written.
ProbeKeys ==
    {Integer(i) : i \in (-1)..(MaxKey + 1)}
    \cup {Number(h) : h \in 1..(2 * MaxFloatKey + 2)}
    \cup {Boolean(TRUE)}
RefKeys == {RefKey(k) : k \in ProbeKeys}

\* The canonical keys among them, and those that hold a value in the table.
CanonicalKeys == {canonical_key(k).key : k \in ProbeKeys}
LiveKeys(arr, m) == {k \in CanonicalKeys : ~is_nil(get(arr, m, k))}

Init ==
    /\ array = <<>>
    /\ map = RawTableNew
    /\ ref = [k \in RefKeys |-> Nil]
    /\ last = [op |-> "new", key |-> Nil, value |-> Nil, ret |-> Nil,
               err |-> "Ok", path |-> "none"]
    /\ calls = 0
    /\ metatable = None
    /\ built = TRUE
    /\ iter = [key |-> Nil, seen |-> <<>>, end |-> "idle"]

\* Table::set(key, value)
SetCall(key, value) ==
    /\ calls' = calls + 1
    /\ metatable' = metatable
    /\ iter' = iter
    /\ built' = (built /\ key = Integer(calls + 1) /\ ~is_nil(value))
    /\ \E r \in {set(array, map, key, value)} :
        /\ array' = r.array
        /\ map' = r.map
        /\ ref' = IF r.err = "Ok" /\ RefKey(key) \in DOMAIN ref
                  THEN [ref EXCEPT ![RefKey(key)] = value] ELSE ref
        /\ last' = [op |-> "set", key |-> key, value |-> value, ret |-> r.ret,
                    err |-> r.err, path |-> r.path]

Set(key, value) ==
    /\ calls < MaxCalls
    /\ SetCall(key, value)

Next == \E key \in Keys, value \in Values : Set(key, value)

Spec == Init /\ [][Next]_vars

\* Table::set_metatable(m)
SetMetatable(m) ==
    /\ calls' = calls + 1
    /\ \E r \in {set_metatable(metatable, m)} :
        /\ metatable' = r.metatable
        /\ last' = [op |-> "set_metatable", key |-> Nil, value |-> m, ret |-> r.ret,
                    err |-> "Ok", path |-> "none"]
    /\ built' = FALSE
    /\ UNCHANGED <<array, map, ref, iter>>

\* The table called with set and set_metatable.
MetaKeys == {Integer(i) : i \in 1..MaxMetaKey} \cup {Number(1)}
Metatables == {None, Some(Table(1)), Some(Table(2))}

MetaNext ==
    /\ calls < MaxMetaCalls
    /\ \/ \E key \in MetaKeys, value \in Values : Set(key, value)
       \/ \E m \in Metatables : SetMetatable(m)

MetaSpec == Init /\ [][MetaNext]_vars

\* The table filled in ascending order: set(1, v), set(2, v), ...
AscendingNext ==
    /\ calls < MaxAscending
    /\ \E value \in NonNilValues : SetCall(Integer(calls + 1), value)

AscendingSpec == Init /\ [][AscendingNext]_vars

\* The table filled with the keys that length probes when the array part is
\* full: the last slot of the array part, and the keys at array.len() + 1,
\* doubled up to the largest integer.  Each key is set once.
LengthKeys ==
    {Integer(1), Integer(VecMinNonZeroCap), Integer(I64Max)}
    \cup {Integer((VecMinNonZeroCap + 1) * 2 ^ k) : k \in 0..(IntBits - 4)}

LengthNext ==
    \E key \in LengthKeys :
        /\ is_nil(get(array, map, key))
        /\ SetCall(key, String(1))

LengthSpec == Init /\ [][LengthNext]_vars

\* Table::next(key), called by a traversal with the key it holds: Nil at the
\* start, then the key returned last.
IterNext ==
    /\ iter.end \in {"idle", "running"}
    /\ \E r \in {next(array, map, iter.key)} :
        /\ iter' = IF r.kind = "Found"
                   THEN [key |-> r.key, seen |-> Append(iter.seen, r.key),
                         end |-> "running"]
                   ELSE [iter EXCEPT !.end = r.kind]
        /\ last' = [op |-> "next", key |-> iter.key, value |-> Nil, ret |-> r.value,
                    err |-> "Ok", path |-> r.kind]
    /\ UNCHANGED <<array, map, ref, calls, metatable, built>>

\* The table is filled by MaxFillCalls calls of set with keys from
\* 1..MaxIterKey and 0.5; then a traversal runs, and between its calls of
\* next the caller overwrites keys that hold a value with values that are not
\* Nil, and does nothing else.
IterKeys == {Integer(i) : i \in 1..MaxIterKey} \cup {Number(1)}

IterFill ==
    /\ iter.end = "idle"
    /\ calls < MaxFillCalls
    /\ \E key \in IterKeys, value \in Values : Set(key, value)

IterUpdate ==
    /\ iter.end = "running"
    /\ \E key \in IterKeys, value \in NonNilValues :
        /\ ~is_nil(get(array, map, key))
        /\ Set(key, value)

IterSpecNext == IterFill \/ IterNext \/ IterUpdate

IterSpec == Init /\ [][IterSpecNext]_vars

\* The same table, called with the keys of FormKeys.
FormNext ==
    /\ calls < MaxKeyCalls
    /\ \E key \in FormKeys, value \in Values : Set(key, value)

FormSpec == Init /\ [][FormNext]_vars

\* ------------------------------------------------------------- claims
SetDone == last.op = "set" /\ last.err = "Ok"

\* C1: get agrees with the reference map: for every key, get returns the value
\* of the most recent successful set on an equal key, and Nil if there was none
\* or it wrote Nil.
C1_GetMatchesReference ==
    \A k \in ProbeKeys : get(array, map, k) = ref[RefKey(k)]

\* A value deleted from the map part of a table that already has an array
\* part (so a rebalance has happened), other entries staying behind.
C1_Witness ==
    /\ SetDone /\ last.path = "remove" /\ ~is_nil(last.ret)
    /\ Len(array) > 0
    /\ Cardinality(LiveKeys(array, map)) >= 2

\* i is a border of the table: i >= 0 with (i = 0 or t[i] # Nil) and
\* t[i + 1] = Nil.
IsBorder(arr, m, i) ==
    /\ i >= 0
    /\ (i = 0 \/ ~is_nil(get(arr, m, Integer(i))))
    /\ is_nil(get(arr, m, Integer(i + 1)))

\* C2: length returns a border of the table.
C2_LengthIsBorder == IsBorder(array, map, length(array, map))

\* The third branch of length: the array part ends non-Nil, the map part
\* holds the next integer key, and the border found lies in the map part.
C2_Witness ==
    /\ Len(array) > 0 /\ ~is_nil(array[Len(array)])
    /\ ~map_is_empty(map)
    /\ length(array, map) > Len(array)

\* C3: the traversal from next(Nil) returns every key that holds a value
\* exactly once, no other key, never NotFound, and then Last.
C3_TraversalCoversAll ==
    \E t \in {traverse(array, map)} : \E live \in {LiveKeys(array, map)} :
        /\ t.end = "Last"
        /\ {t.keys[i] : i \in 1..Len(t.keys)} = live
        /\ Len(t.keys) = Cardinality(live)

\* A traversal that skips a hole of the array part and goes on into the map
\* part.
C3_Witness ==
    /\ \E i \in 1..Len(array) : \E j \in 1..Len(array) :
            i < j /\ is_nil(array[i]) /\ ~is_nil(array[j])
    /\ map_len(map) >= 2
    /\ Len(traverse(array, map).keys) >= 3

\* C4: set with the key Nil fails with IsNil, set with the key NaN fails with
\* IsNaN, whatever the value, and the failed call leaves the table as it was.
C4_InvalidKeyRejected ==
    [][/\ is_nil(last'.key) => (last'.err = "IsNil" /\ array' = array /\ map' = map)
       /\ is_nan(last'.key) => (last'.err = "IsNaN" /\ array' = array /\ map' = map)
      ]_vars

\* A NaN key refused on a table that has entries in both parts.
C4_Witness ==
    /\ last.op = "set" /\ is_nan(last.key) /\ last.err = "IsNaN"
    /\ Len(array) > 0 /\ ~map_is_empty(map)

\* The number of places (array slot, buckets) that hold the key n in either
\* form.
StoredAt(arr, m, n) ==
    (IF n >= 1 /\ n <= Len(arr) /\ ~is_nil(arr[IF n >= 1 /\ n <= Len(arr) THEN n ELSE 1])
     THEN 1 ELSE 0)
    + Cardinality({j \in table_iter(m) :
        m[j + 1].k = Integer(n) \/ m[j + 1].k = Number(2 * n)})

\* C5: an integer-valued float key and the equal integer key are one key: a
\* set through either form is read back through the other, the two forms read
\* the same value in every state, the key is stored at most once, and a key
\* that is not an integer (0.5) is stored in the map part, never in the array.
C5_FloatAndIntegerKeysAgree ==
    /\ (SetDone /\ last.key.t = "Integer")
            => get(array, map, Number(2 * last.key.v)) = last.value
    /\ (SetDone /\ last.key.t = "Number" /\ last.key.v % 2 = 0)
            => get(array, map, Integer(last.key.v \div 2)) = last.value
    /\ \A n \in 0..(MaxKey + 1) :
            /\ get(array, map, Integer(n)) = get(array, map, Number(2 * n))
            /\ StoredAt(array, map, n) <= 1
            /\ is_nil(get(array, map, Integer(n))) <=> StoredAt(array, map, n) = 0
    /\ (SetDone /\ last.key.t = "Number" /\ last.key.v % 2 = 1 /\ ~is_nil(last.value))
            => /\ ~to_array_index(last.key).some
               /\ map_find(map, key_hash(last.key), last.key).some

\* The float form 1.0 overwrites the entry that the integer form 1 put into
\* the map part.
C5_Witness ==
    /\ SetDone /\ last.key = Number(2) /\ last.path = "insert"
    /\ ~is_nil(last.ret) /\ last.ret # last.value
    /\ get(array, map, Integer(1)) = last.value

\* The keys read around a call: every key the calls are made with, the float
\* form of the key 1, and keys that are never set.
FrameKeys == Keys \cup {Integer(0), Integer(MaxKey + 1), Number(2), Boolean(TRUE)}

\* C6: a successful set(k, v) changes the mapping at k only: get of every key
\* that is not equal to k returns after the call what it returned before.
C6_SetFrame ==
    [][\A k \in FrameKeys :
            RefKey(k) # RefKey(last'.key)
                => get(array', map', k) = get(array, map, k)]_vars

\* A set that grows the array part and sweeps entries of the map part into it.
C6_Witness ==
    /\ SetDone /\ last.path = "grow_array"
    /\ Cardinality({i \in 1..Len(array) :
            ~is_nil(array[i]) /\ Integer(i) # canonical_key(last.key).key}) >= 2

\* C7: a successful set(k, v) returns what get(k) returned just before it.
C7_SetReturnsPrevious ==
    [][last'.err = "Ok" => last'.ret = get(array, map, last'.key)]_vars

\* The key was in the full map part, and the rebalance of this call moved it
\* into the array part before the value was written.
C7_Witness ==
    /\ SetDone /\ last.path = "grow_array" /\ ~is_nil(last.ret)
    /\ to_array_index(last.key).some
    /\ to_array_index(last.key).val < Len(array)
    /\ last.ret # last.value

\* A value-only update: a successful set of a non-Nil value on a key that
\* holds a value.
IsValueUpdate ==
    /\ last'.op = "set" /\ last'.err = "Ok"
    /\ ~is_nil(last'.value)
    /\ ~is_nil(get(array, map, last'.key))

\* C8 (as claimed): a set that overwrites the value of a key that holds a value
\* leaves the order of the traversal as it was.
C8_OrderStableUnderValueUpdates ==
    [][IsValueUpdate => traverse(array', map').keys = traverse(array, map).keys]_vars

\* C9 (as claimed): next of a non-Nil key that holds no value is NotFound.
C9_NextOfAbsentKeyIsNotFound ==
    \A k \in ProbeKeys \cup {NaN} :
        is_nil(get(array, map, k)) => next(array, map, k).kind = "NotFound"

\* C10: when the keys that hold a value are exactly the integers 1..n, length
\* is n.
C10_SequenceLength ==
    \E live \in {LiveKeys(array, map)} :
        \A n \in 0..(MaxKey + 1) :
            live = {Integer(i) : i \in 1..n} => length(array, map) = n

\* The keys 1..2 are left after a third key was set and deleted again.
C10_Witness ==
    /\ SetDone /\ is_nil(last.value) /\ ~is_nil(last.ret)
    /\ LiveKeys(array, map) = {Integer(1), Integer(2)}
    /\ length(array, map) = 2

\* The key k is one of the array part: its index is inside the array.
InArrayPart(arr, k) == to_array_index(k).some /\ to_array_index(k).val < Len(arr)

\* C11: in a complete traversal every key of the array part is returned, before
\* any key of the map part and in strictly ascending order, holes skipped; a
\* table built by set(1, v), set(2, v), ..., set(n, v) is traversed as 1, ..., n.
C11_ArrayBeforeMapAscending ==
    \E t \in {traverse(array, map).keys} :
        /\ \A i \in 1..Len(array) :
                ~is_nil(array[i]) => \E p \in 1..Len(t) : t[p] = Integer(i)
        /\ \A p \in 1..Len(t) : \A q \in (p + 1)..Len(t) :
                /\ InArrayPart(array, t[q]) => InArrayPart(array, t[p])
                /\ InArrayPart(array, t[q]) => t[p].v < t[q].v
        /\ built => t = [i \in 1..calls |-> Integer(i)]

\* Two keys of the array part with a hole between them, and a key in the map
\* part.
C11_Witness ==
    /\ \E i \in 1..Len(array) : \E j \in 1..Len(array) : \E k \in 1..Len(array) :
            i < j /\ j < k /\ ~is_nil(array[i]) /\ is_nil(array[j]) /\ ~is_nil(array[k])
    /\ ~map_is_empty(map)
    /\ Len(traverse(array, map).keys) >= 3

\* C12: reading with an invalid key never fails: get(Nil) and get(NaN) are Nil
\* and next(NaN) is NotFound in every state, while next(Nil) starts the
\* traversal.
C12_ReadsAcceptInvalidKeys ==
    /\ is_nil(get(array, map, Nil))
    /\ is_nil(get(array, map, NaN))
    /\ next(array, map, NaN) = NotFound
    /\ next(array, map, Nil).kind \in {"Found", "Last"}

\* The table read has entries in both parts.
C12_Witness ==
    /\ \E i \in 1..Len(array) : ~is_nil(array[i])
    /\ ~map_is_empty(map)
    /\ next(array, map, Nil).kind = "Found"
    /\ next(array, map, NaN).kind = "NotFound"

\* What the read operations return: get of every key, length, and next of
\* every key.
Readings(arr, m) ==
    [get |-> [k \in ProbeKeys |-> get(arr, m, k)],
     length |-> length(arr, m),
     next |-> [k \in ProbeKeys \cup {Nil} |-> next(arr, m, k)]]

\* What a step does with the metatable and the entries.
MetatableStep ==
    /\ (last'.op = "set_metatable") =>
            (/\ last'.ret = metatable_of(metatable)
             /\ metatable_of(metatable') = last'.value
             /\ Readings(array', map') = Readings(array, map))
    /\ (last'.op = "set") =>
            (metatable_of(metatable') = metatable_of(metatable))

\* C13: a new table has no metatable; set_metatable(m) returns what metatable()
\* returned before the call, makes metatable() return m, and changes no result
\* of get, length or next; set never changes what metatable() returns.
C13_MetatableAccessors ==
    /\ (last.op = "new" => metatable_of(metatable) = None)
    /\ [][MetatableStep]_vars

\* A metatable replaced by another on a table that has entries.
C13_Witness ==
    /\ last.op = "set_metatable"
    /\ last.ret = Some(Table(1)) /\ last.value = Some(Table(2))
    /\ metatable = Some(Table(2))
    /\ (~map_is_empty(map) \/ Len(array) > 0)

\* C15: no canonical key is stored twice, and every key Integer(i), i >= 1, of
\* the map part has i > array.len(): a key whose index is inside the array
\* part is never in the map part.
C15_PartitionInvariant ==
    /\ \A j \in table_iter(map) : \A l \in table_iter(map) :
            j # l => ~key_eq(map[j + 1].k, map[l + 1].k)
    /\ \A j \in table_iter(map) :
            (map[j + 1].k.t = "Integer" /\ map[j + 1].k.v >= 1)
                => map[j + 1].k.v > Len(array)
    /\ \A j \in table_iter(map) : ~InArrayPart(array, map[j + 1].k)

\* A rebalance has just grown the array and swept keys of the map part into
\* it, and a key beyond the new array stays in the map part.
C15_Witness ==
    /\ SetDone /\ last.path = "grow_array"
    /\ Cardinality({i \in 1..Len(array) : ~is_nil(array[i])}) >= 2
    /\ \E j \in table_iter(map) : to_array_index(map[j + 1].k).some

\* C16: no entry of the map part has the value Nil.
C16_NoNilInMap ==
    \A j \in table_iter(map) : ~is_nil(map[j + 1].v)

\* A set with the value Nil on a key of the map part has removed its entry,
\* while the array part has a hole.
C16_Witness ==
    /\ SetDone /\ last.path = "remove" /\ ~is_nil(last.ret)
    /\ ~map_is_empty(map)
    /\ \E i \in 1..Len(array) : is_nil(array[i])

\* C17: every key of the map part is canonical: not Nil, not NaN, and no
\* Number that has an integer value.
C17_MapKeysCanonical ==
    \A j \in table_iter(map) :
        /\ canonical_key(map[j + 1].k) = [err |-> "Ok", key |-> map[j + 1].k]
        /\ ~is_nil(map[j + 1].k) /\ ~is_nan(map[j + 1].k)
        /\ map[j + 1].k.t = "Number" => map[j + 1].k.v % 2 = 1

\* The float 2.0 was set and is kept in the map part as the integer 2, next to
\* a float that is no integer.
C17_Witness ==
    /\ SetDone /\ last.key = Number(4) /\ ~is_nil(last.value)
    /\ \E j \in table_iter(map) : map[j + 1].k = Integer(2)
    /\ \E j \in table_iter(map) : map[j + 1].k.t = "Number"

\* The set step was a rebalance.
IsRebalance == last'.op = "set" /\ last'.path \in {"grow_array", "grow_map"}

\* The number of slots of an array of length n that hold a value after the
\* call: the indices below n of the keys that hold a value, the incoming key
\* among them, each counted once.
OccupiedSlots(arr, m, key, n) ==
    Cardinality({i \in 0..(n - 1) :
        \/ ~is_nil(get(arr, m, Integer(i + 1)))
        \/ (to_array_index(key).some /\ to_array_index(key).val = i)})

\* The largest power of two of which more than half the slots are occupied,
\* or 0.
DensestPowerOfTwo(arr, m, key) ==
    LET sizes == {2 ^ k : k \in 0..(MaxKey + 1)}
        dense == {n \in sizes : 2 * OccupiedSlots(arr, m, key, n) > n}
    IN  IF dense = {} THEN 0 ELSE CHOOSE n \in dense : \A o \in dense : o <= n

\* C18 (as claimed): the optimal size a rebalance computes is the largest power
\* of two 2^k such that more than half of the slots of an array of length 2^k
\* would be occupied after the call, the incoming key counted once; 0 if there
\* is none.
C18_OptimalSizeIsDensest ==
    [][IsRebalance =>
            optimal_size(array, map, to_array_index(last'.key))
                = DensestPowerOfTwo(array, map, last'.key)]_vars

\* The keys of the map part.
MapKeys(m) == {m[j + 1].k : j \in table_iter(m)}

\* The conditions under which set rebalances: the key is outside the array
\* part, the value is not Nil, and the map part has no spare capacity.
RebalanceTrigger ==
    /\ last'.op = "set" /\ last'.err = "Ok"
    /\ ~InArrayPart(array, last'.key)
    /\ ~is_nil(last'.value)
    /\ map_len(map) >= map_capacity(map)

\* What a rebalance does: the array part grows, the map part gets more
\* buckets, or a key other than the one set enters or leaves the map part.
RebalanceObserved ==
    \/ Len(array') # Len(array)
    \/ buckets(map') # buckets(map)
    \/ MapKeys(map') \ {canonical_key(last'.key).key}
            # MapKeys(map) \ {canonical_key(last'.key).key}

\* C19: a rebalance happens only in a set whose key is outside the array part,
\* whose value is not Nil and whose map part has no spare capacity; every
\* other set leaves array.len() as it was and moves no entry between the parts.
C19_RebalanceOnlyWhenFull ==
    [][RebalanceObserved => RebalanceTrigger]_vars

\* A rebalance for a new key that has grown the array part and swept two keys
\* of the map part into it, another key staying in the map part.
C19_Witness ==
    /\ SetDone /\ last.path = "grow_array" /\ is_nil(last.ret)
    /\ Cardinality({i \in 1..Len(array) : ~is_nil(array[i])}) >= 3
    /\ ~map_is_empty(map)

\* The rebalance of this step does not grow the array part.
RebalanceWithoutGrowth ==
    /\ RebalanceTrigger
    /\ optimal_size(array, map, to_array_index(last'.key)) <= Len(array)

\* C20: a rebalance whose optimal size does not exceed array.len() leaves the
\* array part as it was, makes the capacity of the map part at least twice
\* the number of entries it held, and stores the incoming pair in the map
\* part.
C20_RebalanceWithoutGrowth ==
    [][RebalanceWithoutGrowth =>
            /\ array' = array
            /\ map_capacity(map') >= 2 * map_len(map)
            /\ \E j \in table_iter(map') :
                    /\ map'[j + 1].k = canonical_key(last'.key).key
                    /\ map'[j + 1].v = last'.value]_vars

\* The map part held 3 entries in 4 buckets, and has 4 entries in 8 buckets
\* after the rebalance.
C20_Witness ==
    /\ SetDone /\ last.path = "grow_map" /\ is_nil(last.ret)
    /\ map_len(map) = 4 /\ buckets(map) = 8

\* The rebalance of this step grows the array part.
RebalanceWithGrowth ==
    /\ RebalanceTrigger
    /\ optimal_size(array, map, to_array_index(last'.key)) > Len(array)

\* What a step does with the length of the array part.
ArrayLenStep ==
    /\ Len(array') >= Len(array)
    /\ (last'.op = "set" /\ InArrayPart(array, last'.key)) =>
            (/\ array' = [array EXCEPT ![to_array_index(last'.key).val + 1] = last'.value]
             /\ map' = map)
    /\ (Len(array') # Len(array)) => RebalanceWithGrowth
    /\ RebalanceWithGrowth =>
            (/\ Len(array') >= optimal_size(array, map, to_array_index(last'.key))
             /\ \E grown \in {array_grow(array,
                        optimal_size(array, map, to_array_index(last'.key)))} :
                    /\ Len(grown) = Len(array')
                    /\ \A i \in 1..Len(grown) :
                            grown[i] = IF i <= Len(array) THEN array[i] ELSE Nil)

\* C21: array.len() never decreases: a Nil written into an array slot leaves a
\* hole and changes nothing else; the length changes only in a rebalance whose
\* optimal size exceeds it, and then to at least that size, the new slots
\* being Nil before the sweep.
C21_ArrayLenMonotone ==
    [][ArrayLenStep]_vars

\* Nil has been written into the last slot of the array part, and every slot
\* is a hole now.
C21_Witness ==
    /\ SetDone /\ last.path = "array" /\ is_nil(last.value) /\ ~is_nil(last.ret)
    /\ Len(array) > 0 /\ last.key = Integer(Len(array))
    /\ \A i \in 1..Len(array) : is_nil(array[i])

\* The smallest power of two that is at least n.
PowerOfTwoAtLeast(n) ==
    CHOOSE p \in {2 ^ k : k \in 0..(IntBits - 2)} :
        p >= n /\ \A q \in {2 ^ k : k \in 0..(IntBits - 2)} : q >= n => p <= q

\* C22: after set(1, v), ..., set(n, v) with no v Nil on a new table,
\* array.len() is at least the smallest power of two >= n, the n entries are
\* in the array part, and the map part is empty.
C22_AscendingFillInArray ==
    (built /\ calls >= 1) =>
        /\ Len(array) >= PowerOfTwoAtLeast(calls)
        /\ \A i \in 1..calls : ~is_nil(array[IF i <= Len(array) THEN i ELSE 1])
        /\ map_is_empty(map)

\* The ninth key has just made the array part grow a third time.
C22_Witness ==
    /\ built /\ calls >= 9
    /\ SetDone /\ last.path = "grow_array"
    /\ Len(array) >= 16

\* The values max takes when it starts at `start` and doubles, the largest
\* integer standing for every double beyond it.
DoublingValues(start) ==
    {start * 2 ^ k : k \in {j \in 0..IntBits : start * 2 ^ j <= I64Max}} \cup {I64Max}

\* length takes its third branch: the array part is empty or ends non-Nil, and
\* the map part is not empty.
LengthProbesMap ==
    /\ (Len(array) = 0 \/ ~is_nil(array[IF Len(array) = 0 THEN 1 ELSE Len(array)]))
    /\ ~map_is_empty(map)

\* The third branch of length, from its first max on.
LengthProbeIsSafe(start, p) ==
    /\ start <= I64Max
    /\ p.max \in DoublingValues(start)
    /\ \A c \in DoublingValues(start) : c < p.max => map_has_integer(map, c)
    /\ p.done =>
            /\ p.max = I64Max /\ map_has_integer(map, I64Max)
            /\ length(array, map) = I64Max
    /\ ~p.done =>
            /\ ~map_has_integer(map, p.max)
            /\ \A i \in binary_search_probes(Len(array), p.max,
                        [j \in (-I64Max)..I64Max |-> ~map_has_integer(map, j)]) :
                    Len(array) < i /\ i < p.max
            /\ length(array, map) >= Len(array) /\ length(array, map) < p.max

\* C23: in the branch of length that extends into the map part, max starts at
\* array.len() + 1 and doubles while it is a key, the largest integer standing
\* for a double that would overflow; length returns the largest integer when
\* that is a key, and otherwise searches strictly between array.len() and a
\* max that is no key.  No value exceeds the IntBits-bit integers.
C23_LengthDoesNotOverflow ==
    LengthProbesMap =>
        LengthProbeIsSafe(Len(array) + 1, length_probe(map, Len(array) + 1))

\* Every key length probes is in the map part, the largest integer among
\* them.
C23_Witness ==
    /\ Len(array) > 0 /\ ~is_nil(array[Len(array)])
    /\ length_probe(map, Len(array) + 1).done
    /\ length(array, map) = I64Max

\* C24 (as claimed): a traversal between whose calls of next the caller only
\* overwrites keys that hold a value, with values that are not Nil, returns
\* every key of the table exactly once and then Last, and never NotFound.
C24_TraversalWithValueUpdates ==
    /\ iter.end # "NotFound"
    /\ \A p \in 1..Len(iter.seen) : \A q \in 1..Len(iter.seen) :
            p # q => iter.seen[p] # iter.seen[q]
    /\ iter.end = "Last" =>
            {iter.seen[p] : p \in 1..Len(iter.seen)} = LiveKeys(array, map)

====
